---- MODULE Spec2Model ----
(***************************************************************************)
(* The scheduled-job state store of robusta:                               *)
(* src/src/robusta/core/persistency/scheduled_jobs_states_dal.py.          *)
(* One ConfigMap ("jobs-states" in namespace "robusta") holds a mapping    *)
(* playbook_id -> JobState json.  Threads of a process call                *)
(* init_scheduler_dal, save_scheduled_job_state, get_scheduled_job_state,  *)
(* del_scheduled_job_state and list_scheduled_jobs_states; each request to *)
(* the Kubernetes API (read, create, replace) is one atomic step, and the  *)
(* steps of different threads interleave freely.                           *)
(***************************************************************************)
EXTENDS Integers, Sequences, FiniteSets, TLC

\* ------------------------------------------------------------- bounds
NumThreads == 2      \* caller threads of the process
NumSavers == 3       \* threads of the disjoint-keys save scenario
NumKeys == 2         \* distinct playbook ids
MaxExecCount == 1    \* a JobState's payload ranges over 0..MaxExecCount
MaxCalls == 3        \* calls started in one behaviour
MaxFailures == 1     \* API requests the cluster answers with an error

Threads == 1..NumThreads
Savers == 1..NumSavers
AllThreads == Threads \cup Savers
Keys == 1..NumKeys
AllKeys == Keys \cup Savers
Counts == 0..MaxExecCount

\* The thread that imports the module, and so runs line 43.
MainThread == 1

\* ------------------------------------------------------ python values
\* Optional[...]: None is the empty tuple, a value x is <<x>>.
None == <<>>
Some(x) == <<x>>

\* dict operations on ConfigMap.data (a function on the set of its keys).
EmptyDict == [k \in {} |-> <<>>]
DictGet(data, k) == IF k \in DOMAIN data THEN Some(data[k]) ELSE None
\* (mutant) an assignment that drops every other key
SetItemOnly(data, k, s) == [x \in {k} |-> s]

\* (mutant) an assignment that keeps the value a key already has
SetItemKeepOld(data, k, s) ==
    [x \in (DOMAIN data) \cup {k} |-> IF x \in DOMAIN data THEN data[x] ELSE s]

SetItem(data, k, s) ==
    [x \in (DOMAIN data) \cup {k} |-> IF x = k THEN s ELSE data[x]]
\* (mutant) a del statement that removes nothing
DelItemNothing(data, k) == data

DelItem(data, k) == [x \in (DOMAIN data) \ {k} |-> data[x]]

\* data.keys() in iteration order: the API server returns a map's keys sorted.
RECURSIVE KeysOf(_)
KeysOf(S) ==
    IF S = {} THEN <<>>
    ELSE LET m == CHOOSE x \in S : \A y \in S : x <= y
         IN <<m>> \o KeysOf(S \ {m})

\* JobState (core/schedule/model.py): the job's id and its scheduling state.
JobState == [playbook_id : AllKeys, exec_count : Counts]

\* job_state.json(): the wire string, here the tuple of the fields' values.
ToJson(js) == <<js.playbook_id, js.exec_count>>

\* A stored string that is no JobState json.
Corrupt == <<>>

\* JobState(**json.loads(s)): Some(state), or None when s does not decode.
FromJson(s) ==
    IF Len(s) = 2 THEN Some([playbook_id |-> s[1], exec_count |-> s[2]])
    ELSE None

\* ----------------------------------------------------------- exceptions
NoExc == [at |-> "", reason |-> ""]
Exc(at, reason) == [at |-> at, reason |-> reason]

\* ------------------------------------------------------------ variables
VARIABLES
    store,       \* the cluster: [exists, data] of the jobs-states ConfigMap
    proc,        \* the process each thread belongs to
    mutex,       \* each process's Lock: 0 when free, else the thread that took it
    loaded,      \* each process: the module's import (line 43) has completed
    pc,          \* each thread's position
    call,        \* each thread's current (or last) call: [op, key, val]
    confMap,     \* local confMap.data of save / del
    state_data,  \* local result of data.get(playbook_id)
    e,           \* init_scheduler_dal: reason of the ApiException caught
    exc,         \* the exception propagating out of the call
    iter,        \* list: [pids, out], keys still to get and states got
    ret,         \* outcome of the last call: [status, val]
    reqs,        \* requests the call has issued: [fetch, create, replace, failed, acquire]
    created,     \* ConfigMaps created in the cluster so far
    preexisting, \* the ConfigMap existed when the process started
    settled,     \* per key: the outcome of its last undisturbed save / del
    overlap,     \* the thread's save / del ran while another one of its key did
    ncalls,      \* calls started
    saved,       \* the JobStates passed to save so far
    nfail        \* requests failed

vars == <<store, proc, mutex, loaded, pc, call, confMap, state_data, e, exc, iter,
          ret, reqs, created, preexisting, settled, overlap, ncalls, saved,
          nfail>>

locals == <<confMap, state_data, e, iter>>
history == <<created, preexisting, settled, overlap, ncalls, saved>>

NoCall == [op |-> "none", key |-> 0, val |-> 0]
NoReqs == [fetch |-> 0, create |-> 0, replace |-> 0, failed |-> 0, acquire |-> 0]
NoIter == [pids |-> <<>>, out |-> <<>>]
NoRet == [status |-> "none", val |-> <<>>]
Ok(v) == [status |-> "ok", val |-> v]
Raised == [status |-> "raised", val |-> <<>>]

Unknown == [known |-> FALSE, val |-> None]
Known(v) == [known |-> TRUE, val |-> v]

Calls ==
    {[op |-> o, key |-> 0, val |-> 0] : o \in {"init", "list"}}
    \cup {[op |-> o, key |-> k, val |-> 0] : o \in {"get", "del"}, k \in Keys}
    \cup {[op |-> "save", key |-> k, val |-> n] : k \in Keys, n \in Counts}

\* The job_state argument of a save call.
JobStateOf(c) == [playbook_id |-> c.key, exec_count |-> c.val]

Entry(op) ==
    CASE op = "init" -> "init_fetch"
      [] op = "save" -> "save_acquire"
      [] op = "get"  -> "get_fetch"
      [] op = "del"  -> "del_acquire"
      [] op = "list" -> "list_fetch"

Mutates(c) == c.op \in {"save", "del"}
Pending(u, k) == pc[u] # "idle" /\ Mutates(call[u]) /\ call[u].key = k
Completed(t) == pc[t] = "idle" /\ ret[t].status # "none"

\* The thread that imports the module in its process.
IsMain(t) == \A u \in AllThreads : proc[u] = proc[t] => t <= u

\* All threads in one process; the last saver in a process of its own; every
\* thread in a process of its own.
OneProcess == [t \in AllThreads |-> 1]
LastApart == [t \in AllThreads |-> IF t = NumSavers THEN 2 ELSE 1]
OwnProcess == [t \in AllThreads |-> t]

\* --------------------------------------------------------------- cluster
\* The cluster may answer any request with an error (bounded by MaxFailures).
Failing == IF nfail < MaxFailures THEN {FALSE, TRUE} ELSE {FALSE}

\* ConfigMap.readNamespacedConfigMap(CONFIGMAP_NAME, CONFIGMAP_NAMESPACE).obj
load_config_map(fail) ==
    IF fail THEN [ok |-> FALSE, reason |-> "Other", data |-> EmptyDict]
    ELSE IF ~store.exists
         THEN [ok |-> FALSE, reason |-> "Not Found", data |-> EmptyDict]
         ELSE [ok |-> TRUE, reason |-> "", data |-> store.data]

\* createNamespacedConfigMap: fails when the object already exists.
CreateAnswer(fail) ==
    IF fail THEN "Other" ELSE IF store.exists THEN "Conflict" ELSE ""

\* replaceNamespacedConfigMap: whole-object overwrite of an existing object.
ReplaceAnswer(fail) ==
    IF fail THEN "Other" ELSE IF ~store.exists THEN "Not Found" ELSE ""

Count(t, field, failed) ==
    [reqs EXCEPT ![t] = [@ EXCEPT ![field] = @ + 1,
                                  !.failed = @ + (IF failed THEN 1 ELSE 0)]]

\* The process starts: no thread is in any call and the Lock is free.  stores
\* are the states the cluster may hold the ConfigMap in at that time.
Boot(stores, isLoaded, procs) ==
    /\ store \in stores
    /\ preexisting = store.exists
    /\ proc = procs
    /\ mutex = [p \in AllThreads |-> 0]
    /\ loaded = [p \in AllThreads |-> isLoaded]
    /\ pc = [t \in AllThreads |-> "idle"]
    /\ call = [t \in AllThreads |-> NoCall]
    /\ confMap = [t \in AllThreads |-> EmptyDict]
    /\ state_data = [t \in AllThreads |-> None]
    /\ e = [t \in AllThreads |-> ""]
    /\ exc = [t \in AllThreads |-> NoExc]
    /\ iter = [t \in AllThreads |-> NoIter]
    /\ ret = [t \in AllThreads |-> NoRet]
    /\ reqs = [t \in AllThreads |-> NoReqs]
    /\ created = 0
    /\ settled = [k \in AllKeys |->
                    IF k \in DOMAIN store.data THEN Unknown ELSE Known(None)]
    /\ overlap = [t \in AllThreads |-> FALSE]
    /\ ncalls = 0
    /\ saved = {}
    /\ nfail = 0

\* Before the import: the ConfigMap is absent, or there and empty.
Init ==
    Boot({[exists |-> b, data |-> EmptyDict] : b \in BOOLEAN}, FALSE, OneProcess)

\* A thread enters one of the five functions: its locals are fresh.
Enter(t, c) ==
    /\ pc[t] = "idle"
    /\ pc' = [pc EXCEPT ![t] = Entry(c.op)]
    /\ call' = [call EXCEPT ![t] = c]
    /\ confMap' = [confMap EXCEPT ![t] = EmptyDict]
    /\ state_data' = [state_data EXCEPT ![t] = None]
    /\ e' = [e EXCEPT ![t] = ""]
    /\ exc' = [exc EXCEPT ![t] = NoExc]
    /\ iter' = [iter EXCEPT ![t] = NoIter]
    /\ ret' = [ret EXCEPT ![t] = NoRet]
    /\ reqs' = [reqs EXCEPT ![t] = NoReqs]
    /\ saved' = (IF c.op = "save" THEN saved \cup {JobStateOf(c)} ELSE saved)
    /\ IF Mutates(c)
       THEN /\ settled' = [settled EXCEPT ![c.key] = Unknown]
            /\ overlap' = [u \in AllThreads |->
                 IF u = t THEN \E w \in AllThreads \ {t} : Pending(w, c.key)
                 ELSE overlap[u] \/ Pending(u, c.key)]
       ELSE UNCHANGED <<settled, overlap>>
    /\ UNCHANGED <<proc, store, mutex, loaded, created, preexisting, nfail>>

\* line 43: the import of the module runs init_scheduler_dal(); until it has
\* completed no function of the module can be called.  An import that raised
\* can be tried again.
Import(t) ==
    /\ IsMain(t)
    /\ ~loaded[proc[t]]
    /\ Enter(t, [op |-> "init", key |-> 0, val |-> 0])
    /\ UNCHANGED ncalls

\* A caller thread calls a function of the imported module.
Call(t) ==
    /\ loaded[proc[t]]
    /\ ncalls < MaxCalls
    /\ ncalls' = ncalls + 1
    /\ \E c \in Calls : Enter(t, c)

\* The call returns or raises: ret is its outcome.
Leave(t, v) ==
    /\ pc' = [pc EXCEPT ![t] = "idle"]
    /\ ret' = [ret EXCEPT ![t] = v]

\* ------------------------------------------------- save_scheduled_job_state
\* (mutant) save without waiting for the mutex
SaveAcquireNoWait(t) ==
    /\ pc[t] = "save_acquire"
    /\ mutex' = [mutex EXCEPT ![proc[t]] = t]
    /\ reqs' = Count(t, "acquire", FALSE)
    /\ pc' = [pc EXCEPT ![t] = "save_fetch"]
    /\ UNCHANGED <<proc, store, loaded, call, locals, exc, ret, history, nfail>>

\* line 47: mutex.acquire()
SaveAcquire(t) ==
    /\ pc[t] = "save_acquire"
    /\ mutex[proc[t]] = 0
    /\ mutex' = [mutex EXCEPT ![proc[t]] = t]
    /\ reqs' = Count(t, "acquire", FALSE)
    /\ pc' = [pc EXCEPT ![t] = "save_fetch"]
    /\ UNCHANGED <<proc, store, loaded, call, locals, exc, ret, history, nfail>>

\* (mutant) save stores the job's id in place of job_state.json()
SaveFetchNoJson(t) ==
    /\ pc[t] = "save_fetch"
    /\ \E fail \in Failing :
         LET r == load_config_map(fail) IN
         /\ reqs' = Count(t, "fetch", ~r.ok)
         /\ nfail' = nfail + (IF fail THEN 1 ELSE 0)
         /\ IF r.ok
            THEN /\ confMap' = [confMap EXCEPT ![t] =
                       SetItem(r.data, call[t].key, <<call[t].key>>)]
                 /\ pc' = [pc EXCEPT ![t] = "save_replace"]
                 /\ UNCHANGED exc
            ELSE /\ exc' = [exc EXCEPT ![t] = Exc("fetch", r.reason)]
                 /\ pc' = [pc EXCEPT ![t] = "save_release"]
                 /\ UNCHANGED confMap
    /\ UNCHANGED <<proc, store, mutex, loaded, call, state_data, e, iter, ret, history>>

\* (mutant) save reads again when the read failed
SaveFetchRetry(t) ==
    /\ pc[t] = "save_fetch"
    /\ \E fail \in Failing :
         LET r == load_config_map(fail) IN
         /\ reqs' = Count(t, "fetch", ~r.ok)
         /\ nfail' = nfail + (IF fail THEN 1 ELSE 0)
         /\ IF r.ok
            THEN /\ confMap' = [confMap EXCEPT ![t] =
                       SetItem(r.data, call[t].key, ToJson(JobStateOf(call[t])))]
                 /\ pc' = [pc EXCEPT ![t] = "save_replace"]
            ELSE UNCHANGED <<confMap, pc>>
    /\ UNCHANGED <<proc, store, mutex, loaded, call, state_data, e, exc, iter, ret,
                   history>>

\* lines 49-50: load_config_map(), then the assignment into the local copy
SaveFetch(t) ==
    /\ pc[t] = "save_fetch"
    /\ \E fail \in Failing :
         LET r == load_config_map(fail) IN
         /\ reqs' = Count(t, "fetch", ~r.ok)
         /\ nfail' = nfail + (IF fail THEN 1 ELSE 0)
         /\ IF r.ok
            THEN /\ confMap' = [confMap EXCEPT ![t] =
                       SetItem(r.data, call[t].key, ToJson(JobStateOf(call[t])))]
                 /\ pc' = [pc EXCEPT ![t] = "save_replace"]
                 /\ UNCHANGED exc
            ELSE /\ exc' = [exc EXCEPT ![t] = Exc("fetch", r.reason)]
                 /\ pc' = [pc EXCEPT ![t] = "save_release"]
                 /\ UNCHANGED confMap
    /\ UNCHANGED <<proc, store, mutex, loaded, call, state_data, e, iter, ret, history>>

\* lines 51-53: confMap.replaceNamespacedConfigMap(...)
SaveReplace(t) ==
    /\ pc[t] = "save_replace"
    /\ \E fail \in Failing :
         LET a == ReplaceAnswer(fail) IN
         /\ reqs' = Count(t, "replace", a # "")
         /\ nfail' = nfail + (IF fail THEN 1 ELSE 0)
         /\ IF a = ""
            THEN /\ store' = [store EXCEPT !.data = confMap[t]]
                 /\ UNCHANGED exc
            ELSE /\ exc' = [exc EXCEPT ![t] = Exc("replace", a)]
                 /\ UNCHANGED store
    /\ pc' = [pc EXCEPT ![t] = "save_release"]
    /\ UNCHANGED <<proc, mutex, loaded, call, locals, ret, history>>

\* The outcome of a save / del of key k that is leaving: known when the call
\* succeeded and no other save / del of k ran during it.
Settle(t, v) ==
    IF exc[t] = NoExc /\ ~overlap[t]
    THEN [settled EXCEPT ![call[t].key] = Known(v)]
    ELSE settled

\* (mutant) save releases the mutex after the replace, with no try / finally
SaveReleaseNoFinally(t) ==
    /\ pc[t] = "save_release"
    /\ mutex' = (IF exc[t] = NoExc THEN [mutex EXCEPT ![proc[t]] = 0] ELSE mutex)
    /\ Leave(t, IF exc[t] = NoExc THEN Ok(None) ELSE Raised)
    /\ settled' = Settle(t, Some(JobStateOf(call[t])))
    /\ UNCHANGED <<proc, saved, store, loaded, call, locals, exc, reqs, created,
                   preexisting, overlap, ncalls, nfail>>

\* lines 54-55: finally: mutex.release(); the call returns or re-raises
SaveRelease(t) ==
    /\ pc[t] = "save_release"
    /\ mutex' = [mutex EXCEPT ![proc[t]] = 0]
    /\ Leave(t, IF exc[t] = NoExc THEN Ok(None) ELSE Raised)
    /\ settled' = Settle(t, Some(JobStateOf(call[t])))
    /\ UNCHANGED <<proc, saved, store, loaded, call, locals, exc, reqs, created,
                   preexisting, overlap, ncalls, nfail>>

\* --------------------------------------------------------- init_scheduler_dal
\* (mutant) init creates the ConfigMap whatever the read answered
InitFetchAlwaysCreate(t) ==
    /\ pc[t] = "init_fetch"
    /\ \E fail \in Failing :
         LET r == load_config_map(fail) IN
         /\ reqs' = Count(t, "fetch", ~r.ok)
         /\ nfail' = nfail + (IF fail THEN 1 ELSE 0)
         /\ e' = [e EXCEPT ![t] = r.reason]
         /\ IF ~r.ok /\ r.reason # "Not Found"
            THEN /\ exc' = [exc EXCEPT ![t] = Exc("fetch", r.reason)]
                 /\ Leave(t, Raised)
            ELSE /\ pc' = [pc EXCEPT ![t] = "init_acquire"]
                 /\ UNCHANGED <<exc, ret>>
    /\ UNCHANGED <<proc, store, mutex, loaded, call, confMap, state_data, iter, history>>

\* (mutant) init takes every ApiException for Not Found
InitFetchCatchAll(t) ==
    /\ pc[t] = "init_fetch"
    /\ \E fail \in Failing :
         LET r == load_config_map(fail) IN
         /\ reqs' = Count(t, "fetch", ~r.ok)
         /\ nfail' = nfail + (IF fail THEN 1 ELSE 0)
         /\ e' = [e EXCEPT ![t] = r.reason]
         /\ IF r.ok
            THEN /\ Leave(t, Ok(None))
                 /\ loaded' = [loaded EXCEPT ![proc[t]] = TRUE]
            ELSE /\ pc' = [pc EXCEPT ![t] = "init_acquire"]
                 /\ UNCHANGED <<ret, loaded>>
    /\ UNCHANGED <<proc, store, mutex, call, confMap, state_data, exc, iter, history>>

\* lines 23-28: load_config_map(); an ApiException other than Not Found is
\* re-raised, and without any exception the function is done.
InitFetch(t) ==
    /\ pc[t] = "init_fetch"
    /\ \E fail \in Failing :
         LET r == load_config_map(fail) IN
         /\ reqs' = Count(t, "fetch", ~r.ok)
         /\ nfail' = nfail + (IF fail THEN 1 ELSE 0)
         /\ e' = [e EXCEPT ![t] = r.reason]
         /\ IF r.ok
            THEN /\ Leave(t, Ok(None))
                 /\ loaded' = [loaded EXCEPT ![proc[t]] = TRUE]
                 /\ UNCHANGED exc
            ELSE IF r.reason # "Not Found"
            THEN /\ exc' = [exc EXCEPT ![t] = Exc("fetch", r.reason)]
                 /\ Leave(t, Raised)
                 /\ UNCHANGED loaded
            ELSE /\ pc' = [pc EXCEPT ![t] = "init_acquire"]
                 /\ UNCHANGED <<exc, ret, loaded>>
    /\ UNCHANGED <<proc, store, mutex, call, confMap, state_data, iter, history>>

\* line 30: mutex.acquire()
InitAcquire(t) ==
    /\ pc[t] = "init_acquire"
    /\ mutex[proc[t]] = 0
    /\ mutex' = [mutex EXCEPT ![proc[t]] = t]
    /\ reqs' = Count(t, "acquire", FALSE)
    /\ pc' = [pc EXCEPT ![t] = "init_create"]
    /\ UNCHANGED <<proc, store, loaded, call, locals, exc, ret, history, nfail>>

\* lines 32-38: an empty ConfigMap is built and created in the cluster
InitCreate(t) ==
    /\ pc[t] = "init_create"
    /\ \E fail \in Failing :
         LET a == CreateAnswer(fail) IN
         /\ reqs' = Count(t, "create", a # "")
         /\ nfail' = nfail + (IF fail THEN 1 ELSE 0)
         /\ IF a = ""
            THEN /\ store' = [exists |-> TRUE, data |-> EmptyDict]
                 /\ created' = created + 1
                 /\ UNCHANGED exc
            ELSE /\ exc' = [exc EXCEPT ![t] = Exc("create", a)]
                 /\ UNCHANGED <<store, created>>
    /\ pc' = [pc EXCEPT ![t] = "init_release"]
    /\ UNCHANGED <<proc, saved, mutex, loaded, call, locals, ret, preexisting, settled,
                   overlap, ncalls>>

\* (mutant) init swallows the create's exception
InitReleaseSwallow(t) ==
    /\ pc[t] = "init_release"
    /\ mutex' = [mutex EXCEPT ![proc[t]] = 0]
    /\ Leave(t, Ok(None))
    /\ loaded' = [loaded EXCEPT ![proc[t]] = TRUE]
    /\ UNCHANGED <<proc, store, call, locals, exc, reqs, history, nfail>>

\* lines 39-40: finally: mutex.release(); the call returns or re-raises
InitRelease(t) ==
    /\ pc[t] = "init_release"
    /\ mutex' = [mutex EXCEPT ![proc[t]] = 0]
    /\ Leave(t, IF exc[t] = NoExc THEN Ok(None) ELSE Raised)
    /\ loaded' = [loaded EXCEPT ![proc[t]] = @ \/ exc[t] = NoExc]
    /\ UNCHANGED <<proc, store, call, locals, exc, reqs, history, nfail>>

\* ---------------------------------------------------- get_scheduled_job_state
\* (mutant) data[playbook_id] for data.get(playbook_id): a missing key raises
GetByIndex(r, playbook_id) ==
    IF ~r.ok
    THEN [exc |-> Exc("fetch", r.reason), state_data |-> None, ret |-> Raised]
    ELSE LET sd == DictGet(r.data, playbook_id) IN
         IF sd = None
         THEN [exc |-> Exc("get", "KeyError"), state_data |-> sd, ret |-> Raised]
         ELSE IF FromJson(sd[1]) = None
         THEN [exc |-> Exc("decode", "Deserialization"), state_data |-> sd,
               ret |-> Raised]
         ELSE [exc |-> NoExc, state_data |-> sd, ret |-> Ok(FromJson(sd[1]))]

\* (mutant) a string that does not decode is taken for a missing key
GetSwallowDecode(r, playbook_id) ==
    IF ~r.ok
    THEN [exc |-> Exc("fetch", r.reason), state_data |-> None, ret |-> Raised]
    ELSE LET sd == DictGet(r.data, playbook_id) IN
         IF sd = None \/ FromJson(sd[1]) = None
         THEN [exc |-> NoExc, state_data |-> sd, ret |-> Ok(None)]
         ELSE [exc |-> NoExc, state_data |-> sd, ret |-> Ok(FromJson(sd[1]))]

\* lines 59-60 on the answer r of load_config_map(): the exception raised (if
\* any), the local state_data and the outcome.
get_scheduled_job_state(r, playbook_id) ==
    IF ~r.ok
    THEN [exc |-> Exc("fetch", r.reason), state_data |-> None, ret |-> Raised]
    ELSE LET sd == DictGet(r.data, playbook_id) IN
         IF sd = None
         THEN [exc |-> NoExc, state_data |-> sd, ret |-> Ok(None)]
         ELSE IF FromJson(sd[1]) = None
         THEN [exc |-> Exc("decode", "Deserialization"), state_data |-> sd,
               ret |-> Raised]
         ELSE [exc |-> NoExc, state_data |-> sd, ret |-> Ok(FromJson(sd[1]))]

\* lines 58-60: one read of the ConfigMap, then local decoding
GetFetch(t) ==
    /\ pc[t] = "get_fetch"
    /\ \E fail \in Failing :
         LET o == get_scheduled_job_state(load_config_map(fail), call[t].key) IN
         /\ reqs' = Count(t, "fetch", o.exc.at = "fetch")
         /\ nfail' = nfail + (IF fail THEN 1 ELSE 0)
         /\ state_data' = [state_data EXCEPT ![t] = o.state_data]
         /\ exc' = [exc EXCEPT ![t] = o.exc]
         /\ Leave(t, o.ret)
    /\ UNCHANGED <<proc, store, mutex, loaded, call, confMap, e, iter, history>>

\* ---------------------------------------------------- del_scheduled_job_state
\* (mutant) del without waiting for the mutex
DelAcquireNoWait(t) ==
    /\ pc[t] = "del_acquire"
    /\ mutex' = [mutex EXCEPT ![proc[t]] = t]
    /\ reqs' = Count(t, "acquire", FALSE)
    /\ pc' = [pc EXCEPT ![t] = "del_fetch"]
    /\ UNCHANGED <<proc, store, loaded, call, locals, exc, ret, history, nfail>>

\* line 64: mutex.acquire()
DelAcquire(t) ==
    /\ pc[t] = "del_acquire"
    /\ mutex[proc[t]] = 0
    /\ mutex' = [mutex EXCEPT ![proc[t]] = t]
    /\ reqs' = Count(t, "acquire", FALSE)
    /\ pc' = [pc EXCEPT ![t] = "del_fetch"]
    /\ UNCHANGED <<proc, store, loaded, call, locals, exc, ret, history, nfail>>

\* (mutant) del writes the ConfigMap back whether the key was there or not
DelFetchAlwaysWrite(t) ==
    /\ pc[t] = "del_fetch"
    /\ \E fail \in Failing :
         LET r == load_config_map(fail)
             sd == DictGet(r.data, call[t].key) IN
         /\ reqs' = Count(t, "fetch", ~r.ok)
         /\ nfail' = nfail + (IF fail THEN 1 ELSE 0)
         /\ IF ~r.ok
            THEN /\ exc' = [exc EXCEPT ![t] = Exc("fetch", r.reason)]
                 /\ pc' = [pc EXCEPT ![t] = "del_release"]
                 /\ UNCHANGED <<confMap, state_data>>
            ELSE /\ state_data' = [state_data EXCEPT ![t] = sd]
                 /\ UNCHANGED exc
                 /\ confMap' = [confMap EXCEPT ![t] = DelItem(r.data, call[t].key)]
                 /\ pc' = [pc EXCEPT ![t] = "del_replace"]
    /\ UNCHANGED <<proc, store, mutex, loaded, call, e, iter, ret, history>>

\* lines 66-68: load_config_map(); a key that is there is deleted from the
\* local copy, and only then is there anything to write back
DelFetch(t) ==
    /\ pc[t] = "del_fetch"
    /\ \E fail \in Failing :
         LET r == load_config_map(fail)
             sd == DictGet(r.data, call[t].key) IN
         /\ reqs' = Count(t, "fetch", ~r.ok)
         /\ nfail' = nfail + (IF fail THEN 1 ELSE 0)
         /\ IF ~r.ok
            THEN /\ exc' = [exc EXCEPT ![t] = Exc("fetch", r.reason)]
                 /\ pc' = [pc EXCEPT ![t] = "del_release"]
                 /\ UNCHANGED <<confMap, state_data>>
            ELSE /\ state_data' = [state_data EXCEPT ![t] = sd]
                 /\ UNCHANGED exc
                 /\ IF sd # None
                    THEN /\ confMap' = [confMap EXCEPT ![t] =
                               DelItem(r.data, call[t].key)]
                         /\ pc' = [pc EXCEPT ![t] = "del_replace"]
                    ELSE /\ confMap' = [confMap EXCEPT ![t] = r.data]
                         /\ pc' = [pc EXCEPT ![t] = "del_release"]
    /\ UNCHANGED <<proc, store, mutex, loaded, call, e, iter, ret, history>>

\* lines 69-71: confMap.replaceNamespacedConfigMap(...)
DelReplace(t) ==
    /\ pc[t] = "del_replace"
    /\ \E fail \in Failing :
         LET a == ReplaceAnswer(fail) IN
         /\ reqs' = Count(t, "replace", a # "")
         /\ nfail' = nfail + (IF fail THEN 1 ELSE 0)
         /\ IF a = ""
            THEN /\ store' = [store EXCEPT !.data = confMap[t]]
                 /\ UNCHANGED exc
            ELSE /\ exc' = [exc EXCEPT ![t] = Exc("replace", a)]
                 /\ UNCHANGED store
    /\ pc' = [pc EXCEPT ![t] = "del_release"]
    /\ UNCHANGED <<proc, mutex, loaded, call, locals, ret, history>>

\* lines 72-73: finally: mutex.release(); the call returns or re-raises
DelRelease(t) ==
    /\ pc[t] = "del_release"
    /\ mutex' = [mutex EXCEPT ![proc[t]] = 0]
    /\ Leave(t, IF exc[t] = NoExc THEN Ok(None) ELSE Raised)
    /\ settled' = Settle(t, None)
    /\ UNCHANGED <<proc, saved, store, loaded, call, locals, exc, reqs, created,
                   preexisting, overlap, ncalls, nfail>>

\* ------------------------------------------------- list_scheduled_jobs_states
\* line 77, the iterable: load_config_map().data.keys()
ListFetch(t) ==
    /\ pc[t] = "list_fetch"
    /\ \E fail \in Failing :
         LET r == load_config_map(fail)
             pids == KeysOf(DOMAIN r.data) IN
         /\ reqs' = Count(t, "fetch", ~r.ok)
         /\ nfail' = nfail + (IF fail THEN 1 ELSE 0)
         /\ IF ~r.ok
            THEN /\ exc' = [exc EXCEPT ![t] = Exc("fetch", r.reason)]
                 /\ Leave(t, Raised)
                 /\ UNCHANGED iter
            ELSE /\ UNCHANGED exc
                 /\ iter' = [iter EXCEPT ![t] = [pids |-> pids, out |-> <<>>]]
                 /\ IF pids = <<>>
                    THEN Leave(t, Ok(<<>>))
                    ELSE /\ pc' = [pc EXCEPT ![t] = "list_get"]
                         /\ UNCHANGED ret
    /\ UNCHANGED <<proc, store, mutex, loaded, call, confMap, state_data, e, history>>

\* (mutant) list returns from inside its loop, after the first state
ListGetFirstOnly(t) ==
    /\ pc[t] = "list_get"
    /\ \E fail \in Failing :
         LET pid == Head(iter[t].pids)
             rest == Tail(iter[t].pids)
             o == get_scheduled_job_state(load_config_map(fail), pid)
             out == Append(iter[t].out, o.ret.val) IN
         /\ reqs' = Count(t, "fetch", o.exc.at = "fetch")
         /\ nfail' = nfail + (IF fail THEN 1 ELSE 0)
         /\ state_data' = [state_data EXCEPT ![t] = o.state_data]
         /\ exc' = [exc EXCEPT ![t] = o.exc]
         /\ IF o.ret.status = "raised"
            THEN /\ Leave(t, Raised)
                 /\ UNCHANGED iter
            ELSE /\ iter' = [iter EXCEPT ![t] = [pids |-> rest, out |-> out]]
                 /\ Leave(t, Ok(out))
    /\ UNCHANGED <<proc, store, mutex, loaded, call, confMap, e, history>>

\* line 77, the element: get_scheduled_job_state(pid) for the next pid, which
\* reads the ConfigMap again; after the last pid the list is returned
ListGet(t) ==
    /\ pc[t] = "list_get"
    /\ \E fail \in Failing :
         LET pid == Head(iter[t].pids)
             rest == Tail(iter[t].pids)
             o == get_scheduled_job_state(load_config_map(fail), pid)
             out == Append(iter[t].out, o.ret.val) IN
         /\ reqs' = Count(t, "fetch", o.exc.at = "fetch")
         /\ nfail' = nfail + (IF fail THEN 1 ELSE 0)
         /\ state_data' = [state_data EXCEPT ![t] = o.state_data]
         /\ exc' = [exc EXCEPT ![t] = o.exc]
         /\ IF o.ret.status = "raised"
            THEN /\ Leave(t, Raised)
                 /\ UNCHANGED iter
            ELSE /\ iter' = [iter EXCEPT ![t] = [pids |-> rest, out |-> out]]
                 /\ IF rest = <<>>
                    THEN Leave(t, Ok(out))
                    ELSE UNCHANGED <<pc, ret>>
    /\ UNCHANGED <<proc, store, mutex, loaded, call, confMap, e, history>>

\* ------------------------------------------------------- specifications
\* One step of thread t.
Step(t) ==
    \/ Import(t)
    \/ Call(t)
    \/ InitFetch(t)
    \/ InitAcquire(t)
    \/ InitCreate(t)
    \/ InitRelease(t)
    \/ SaveAcquire(t)
    \/ SaveFetch(t)
    \/ SaveReplace(t)
    \/ SaveRelease(t)
    \/ GetFetch(t)
    \/ DelAcquire(t)
    \/ DelFetch(t)
    \/ DelReplace(t)
    \/ DelRelease(t)
    \/ ListFetch(t)
    \/ ListGet(t)

\* The process with its caller threads.
Next == \E t \in Threads : Step(t)

Spec == Init /\ [][Next]_vars

\* The steps of a call that has started: all of Step(t) but the caller's
\* decision to import or to call.
Run(t) ==
    \/ InitFetch(t)
    \/ InitAcquire(t)
    \/ InitCreate(t)
    \/ InitRelease(t)
    \/ SaveAcquire(t)
    \/ SaveFetch(t)
    \/ SaveReplace(t)
    \/ SaveRelease(t)
    \/ GetFetch(t)
    \/ DelAcquire(t)
    \/ DelFetch(t)
    \/ DelReplace(t)
    \/ DelRelease(t)
    \/ ListFetch(t)
    \/ ListGet(t)

\* mutex.acquire() of lines 30, 47 and 64
Acquire(t) == InitAcquire(t) \/ SaveAcquire(t) \/ DelAcquire(t)

\* A running thread is scheduled and the cluster answers each request (weak
\* fairness of its steps); a thread that waits for the Lock gets it if the
\* Lock is free again and again (strong fairness of its acquire).
Fairness ==
    \A t \in Threads : WF_vars(Run(t)) /\ SF_vars(Acquire(t))

SpecFair == Init /\ [][Next]_vars /\ Fairness

\* One caller thread: no two calls overlap.
NextSeq == Step(MainThread)

SpecSeq == Init /\ [][NextSeq]_vars

\* The disjoint-keys scenario: the ConfigMap exists and is empty, and each of
\* the NumSavers threads saves once, under its own key.
InitSavers == Boot({[exists |-> TRUE, data |-> EmptyDict]}, TRUE, OneProcess)

SaveOwnKey(t) ==
    /\ call[t] = NoCall
    /\ \E n \in Counts : Enter(t, [op |-> "save", key |-> t, val |-> n])
    /\ UNCHANGED ncalls

NextSavers ==
    \E t \in Savers :
        \/ SaveOwnKey(t)
        \/ SaveAcquire(t)
        \/ SaveFetch(t)
        \/ SaveReplace(t)
        \/ SaveRelease(t)

SpecSavers == InitSavers /\ [][NextSavers]_vars

\* The same scenario with the last saver in a second process: it has its own
\* Lock, and shares the ConfigMap.
InitCross == Boot({[exists |-> TRUE, data |-> EmptyDict]}, TRUE, LastApart)

SpecCross == InitCross /\ [][NextSavers]_vars

\* Two processes start together on one cluster, one thread in each.
InitProcs ==
    Boot({[exists |-> b, data |-> EmptyDict] : b \in BOOLEAN}, FALSE, OwnProcess)

SpecProcs == InitProcs /\ [][Next]_vars

\* A ConfigMap left by an earlier run or edited by hand: any strings under
\* any keys.  One caller thread.
StoredStrings ==
    {ToJson(js) : js \in [playbook_id : Keys, exec_count : Counts]}
    \cup {Corrupt}

StoredDicts == UNION {[S -> StoredStrings] : S \in SUBSET Keys}

InitStored ==
    Boot({[exists |-> FALSE, data |-> EmptyDict]}
         \cup {[exists |-> TRUE, data |-> d] : d \in StoredDicts}, FALSE,
         OneProcess)

SpecStored == InitStored /\ [][NextSeq]_vars
\* ------------------------------------------------------------ properties
\* A get step of thread t that the cluster answers without an error.
GetStep(t) == pc[t] = "get_fetch" /\ pc'[t] = "idle" /\ nfail' = nfail

Returned(t, op) == Completed(t) /\ call[t].op = op /\ ret[t].status = "ok"

\* C1: when each of the N threads has saved once under its own key, starting
\* from the empty ConfigMap, and all N calls have returned, the mapping holds
\* all N keys, each with the json its save wrote.
C1_NoLostUpdate ==
    (\A t \in Savers : Returned(t, "save"))
    => \A t \in Savers :
         /\ t \in DOMAIN store.data
         /\ store.data[t] = ToJson(JobStateOf(call[t]))

C1_Witness ==
    /\ \A t \in Savers : Returned(t, "save")
    /\ DOMAIN store.data = Savers

\* C2: a get of key k, made when the last save / del of k is an undisturbed
\* save(k, v) that has returned, returns v: the value of the last save only.
C2_RoundTrip ==
    [][\A t \in Threads :
         LET s == settled[call[t].key] IN
         (GetStep(t) /\ s.known /\ s.val # None) => ret'[t] = Ok(s.val)]_vars

\* thread u saved another value under k before; t got k's latest value
C2_Witness ==
    \E t, u \in Threads :
        /\ Returned(t, "get") /\ Returned(u, "save")
        /\ call[u].key = call[t].key
        /\ settled[call[t].key].known
        /\ ret[t].val # None
        /\ ret[t].val = settled[call[t].key].val
        /\ ret[t].val[1].exec_count # call[u].val

\* C3: at most one ConfigMap is ever created, exactly one once an init has
\* returned on a cluster that had none; an init call whose read did not
\* answer Not Found issues no create and no replace, and no init replaces.
C3_IdempotentInit ==
    /\ created + (IF preexisting THEN 1 ELSE 0) <= 1
    /\ loaded[proc[MainThread]] => (store.exists /\ created = (IF preexisting THEN 0 ELSE 1))
    /\ \A t \in Threads :
         call[t].op = "init" =>
            /\ reqs[t].replace = 0
            /\ e[t] # "Not Found" => reqs[t].create = 0

\* a second init call, after the import's call created the ConfigMap
C3_Witness ==
    \E t \in Threads :
        /\ Returned(t, "init")
        /\ ncalls >= 1
        /\ ~preexisting /\ created = 1
        /\ reqs[t] = [NoReqs EXCEPT !.fetch = 1]

\* C4: while the last save / del of key k is an undisturbed del(k) that has
\* returned (or k was never saved), k is no key of the mapping and a get of k
\* returns None.
C4_DeleteEffective ==
    /\ [](\A k \in Keys :
            (settled[k] = Known(None) /\ store.exists) => k \notin DOMAIN store.data)
    /\ [][\A t \in Threads :
            (GetStep(t) /\ settled[call[t].key] = Known(None))
            => ret'[t] = Ok(None)]_vars

\* u's del removed the key (it wrote), then t's get returned None
C4_Witness ==
    \E t, u \in Threads :
        /\ Returned(u, "del") /\ reqs[u].replace = 1
        /\ Returned(t, "get") /\ call[t].key = call[u].key
        /\ ret[t].val = None
        /\ settled[call[t].key] = Known(None)

\* C5: a del whose read answered with a mapping that lacks the key issues no
\* replace and raises nothing.
C5_DeleteAbsentNoWrite ==
    \A t \in Threads :
        (/\ call[t].op = "del"
         /\ reqs[t].fetch >= 1 /\ exc[t].at # "fetch"
         /\ state_data[t] = None)
        => /\ reqs[t].replace = 0
           /\ exc[t] = NoExc
           /\ Completed(t) => ret[t] = Ok(None)

\* u's del removed the key, t's del right after it wrote nothing
C5_Witness ==
    \E t, u \in Threads :
        /\ Returned(u, "del") /\ reqs[u].replace = 1
        /\ Returned(t, "del") /\ call[t].key = call[u].key
        /\ reqs[t] = [NoReqs EXCEPT !.fetch = 1, !.acquire = 1]
        /\ settled[call[t].key] = Known(None)

\* C6: a get of a key that is not in the mapping returns None: it raises
\* nothing and writes nothing.
C6_AbsentIsNone ==
    [][\A t \in Threads :
         (GetStep(t) /\ store.exists /\ call[t].key \notin DOMAIN store.data)
         => /\ ret'[t] = Ok(None)
            /\ exc'[t] = NoExc
            /\ store' = store
            /\ reqs'[t].replace = 0 /\ reqs'[t].create = 0]_vars

\* a get of a key returned None while the mapping held another key
C6_Witness ==
    \E t \in Threads :
        /\ Returned(t, "get") /\ ret[t].val = None
        /\ state_data[t] = None
        /\ store.data # EmptyDict
        /\ call[t].key \notin DOMAIN store.data

\* C7: with one caller thread, and every key's last save / del returned, a
\* list that returns yields one state per key last saved and not deleted
\* since, the set of them being the set of the values last saved.
Surviving == {k \in Keys : settled[k].val # None}

C7_ListComplete ==
    (/\ Returned(MainThread, "list")
     /\ \A k \in Keys : settled[k].known)
    => LET out == ret[MainThread].val IN
       /\ Len(out) = Cardinality(Surviving)
       /\ {out[i] : i \in 1..Len(out)} = {settled[k].val : k \in Surviving}

C7_Witness ==
    /\ Returned(MainThread, "list")
    /\ \A k \in Keys : settled[k].known
    /\ Len(ret[MainThread].val) = 2

\* C8: a save issues at most one read and one replace; one that got an error
\* from the cluster raises, and when the error came from the read it has
\* issued no replace.
C8_SaveFailureSurfaced ==
    \A t \in Threads :
        call[t].op = "save" =>
            /\ reqs[t].fetch <= 1
            /\ reqs[t].replace <= 1
            /\ (Completed(t) /\ reqs[t].failed > 0) =>
                  /\ ret[t] = Raised
                  /\ reqs[t].fetch = 1
                  /\ exc[t].at \in {"fetch", "replace"}
                  /\ exc[t].at = "fetch" => reqs[t].replace = 0

C8_Witness ==
    \E t \in Threads :
        /\ call[t].op = "save" /\ Completed(t)
        /\ ret[t] = Raised
        /\ exc[t] = Exc("fetch", "Other")
        /\ reqs[t].replace = 0

\* C9: an init whose read failed with anything but Not Found has raised that
\* error, and has neither taken the mutex nor issued a create; only Not Found
\* leads to the mutex and the create, and Not Found itself is never raised.
C9_InitOnlyNotFound ==
    \A t \in Threads :
        call[t].op = "init" =>
            /\ e[t] \notin {"", "Not Found"} =>
                  /\ Completed(t) /\ ret[t] = Raised
                  /\ exc[t] = Exc("fetch", e[t])
                  /\ reqs[t].acquire = 0 /\ reqs[t].create = 0
            /\ (reqs[t].acquire > 0 \/ reqs[t].create > 0) => e[t] = "Not Found"
            /\ exc[t] # Exc("fetch", "Not Found")
            /\ (Completed(t) /\ e[t] = "Not Found" /\ reqs[t].failed = 1)
                  => ret[t] = Ok(None)

C9_Witness ==
    \E t \in Threads :
        /\ call[t].op = "init" /\ Completed(t)
        /\ e[t] = "Other"
        /\ ret[t] = Raised

\* C10: with one caller thread, a get of a key whose stored string does not
\* decode raises (it never returns None), and a list of a mapping that holds
\* such a string under any key raises and returns no state.
Undecodable(k) ==
    store.exists /\ k \in DOMAIN store.data /\ FromJson(store.data[k]) = None

C10_CorruptionRaises ==
    /\ (Completed(MainThread) /\ call[MainThread].op = "get"
        /\ Undecodable(call[MainThread].key))
       => /\ ret[MainThread] = Raised
          /\ exc[MainThread].at \in {"decode", "fetch"}
          /\ reqs[MainThread].failed = 0 => exc[MainThread].at = "decode"
    /\ (Completed(MainThread) /\ call[MainThread].op = "list"
        /\ \E k \in Keys : Undecodable(k))
       => /\ ret[MainThread] = Raised
          /\ reqs[MainThread].failed = 0 => exc[MainThread].at = "decode"

\* a list raised on one corrupt entry although another key decodes
C10_Witness ==
    /\ Completed(MainThread) /\ call[MainThread].op = "list"
    /\ ret[MainThread] = Raised
    /\ exc[MainThread].at = "decode"
    /\ \E k \in Keys : Undecodable(k)
    /\ \E k \in DOMAIN store.data : FromJson(store.data[k]) # None

\* C11: two savers of different processes can both return while the mapping
\* lacks the key of one of them (the witness); and a saver that has returned
\* lacks its key only when a saver of another process has written.
Lost(t) ==
    /\ Returned(t, "save")
    /\ DictGet(store.data, t) # Some(ToJson(JobStateOf(call[t])))

C11_LostOnlyAcrossProcesses ==
    \A t \in Savers :
        Lost(t) => \E u \in Savers : proc[u] # proc[t] /\ reqs[u].replace >= 1

C11_Witness ==
    \E t, u \in Savers :
        /\ proc[t] # proc[u]
        /\ Returned(t, "save") /\ Returned(u, "save")
        /\ t \notin DOMAIN store.data
        /\ u \in DOMAIN store.data

\* C12: of the threads of one process at most one is between a mutex.acquire()
\* and its release, and it is the one the Lock records; and while a thread is
\* between the read and the replace of its save / del, no step of another
\* thread changes the ConfigMap.
Locked(t) ==
    pc[t] \in {"save_fetch", "save_replace", "save_release",
               "del_fetch", "del_replace", "del_release",
               "init_create", "init_release"}

Midway(t) == pc[t] \in {"save_replace", "del_replace"}

C12_OneWriter ==
    /\ [](\A t, u \in Threads :
            /\ Locked(t) => mutex[proc[t]] = t
            /\ (Locked(t) /\ Locked(u) /\ proc[t] = proc[u]) => t = u)
    /\ [][\A u \in Threads :
            (Midway(u) /\ pc'[u] = pc[u]) => store' = store]_vars

\* one thread is about to write back while another waits for the mutex
C12_Witness ==
    \E t, u \in Threads :
        /\ Midway(t)
        /\ pc[u] \in {"save_acquire", "del_acquire"}
        /\ mutex[proc[u]] = t

\* C13: the mapping a save writes back is the mapping the cluster holds just
\* before that write with the save's key set to its json, and the one a del
\* writes back is that mapping without the del's key.
C13_OwnKeyOnly ==
    [][\A t \in Threads :
         LET k == call[t].key
             old == store.data
             wrote == pc'[t] # pc[t] /\ exc'[t] = NoExc IN
         /\ (pc[t] = "save_replace" /\ wrote) =>
               store'.data = [x \in (DOMAIN old) \cup {k} |->
                                IF x = k THEN ToJson(JobStateOf(call[t]))
                                ELSE old[x]]
         /\ (pc[t] = "del_replace" /\ wrote) =>
               store'.data = [x \in (DOMAIN old) \ {k} |-> old[x]]]_vars

\* a save has just written its key beside another one
C13_Witness ==
    \E t \in Threads :
        /\ pc[t] = "save_release" /\ exc[t] = NoExc
        /\ store.data = confMap[t]
        /\ Cardinality(DOMAIN store.data) = 2

\* C14: no init call issues a create that the cluster refuses because the
\* ConfigMap exists already, whatever calls overlap.  (The read of lines
\* 23-24 is made before, and outside, the mutex of line 30.)
C14_CreateFindsAbsent ==
    \A t \in Threads :
        call[t].op = "init" => exc[t] # Exc("create", "Conflict")

\* C15: a list call issues one read of the ConfigMap, whatever the number of
\* keys.  (Line 77 calls get_scheduled_job_state, which reads, once per key.)
C15_ListReadsOnce ==
    \A t \in Threads : call[t].op = "list" => reqs[t].fetch <= 1

\* C16: every element of the list a list call returns is a JobState, never
\* None, whatever saves and dels run meanwhile.
C16_ListNoNone ==
    \A t \in Threads :
        Returned(t, "list") =>
            \A i \in 1..Len(ret[t].val) : ret[t].val[i] # None

\* C17: once the import's init has returned the ConfigMap exists, and every
\* get, save, del and list runs while it exists; no step removes the
\* ConfigMap, creates it anew, or empties a mapping other than a del's replace.
C17_DocumentPersists ==
    /\ [](\A t \in Threads :
            /\ loaded[proc[t]] => store.exists
            /\ (pc[t] # "idle" /\ call[t].op # "init") => store.exists)
    /\ [][store.exists =>
            /\ store'.exists
            /\ created' = created
            /\ (store'.data = EmptyDict /\ store.data # EmptyDict)
                  => \E t \in Threads : pc[t] = "del_replace"]_vars

\* the ConfigMap init created holds a state, and a later call is running
C17_Witness ==
    /\ ~preexisting /\ created = 1
    /\ store.exists /\ store.data # EmptyDict
    /\ \E t \in Threads : pc[t] = "list_get"

\* C18: every key k of the mapping holds the json of a JobState that was
\* passed to a save call, and that state's playbook_id is k.
C18_EntriesWellFormed ==
    \A k \in DOMAIN store.data :
        \E js \in saved :
            /\ store.data[k] = ToJson(js)
            /\ FromJson(store.data[k]) = Some(js)
            /\ js.playbook_id = k

\* two keys stored, one of them saved twice
C18_Witness ==
    /\ Cardinality(DOMAIN store.data) = 2
    /\ Cardinality(saved) = 3

\* C19: a Lock that is taken is held by a thread of its process that is
\* between its mutex.acquire() and its release; so with no save, del or init
\* in progress the Lock is free, also after a call that raised.
C19_MutexReleased ==
    /\ \A p \in DOMAIN mutex :
          mutex[p] # 0 => (Locked(mutex[p]) /\ proc[mutex[p]] = p)
    /\ (\A t \in Threads : pc[t] = "idle") => \A p \in DOMAIN mutex : mutex[p] = 0

\* a save raised on its replace, no call is running, and the Lock is free
C19_Witness ==
    /\ \A t \in Threads : pc[t] = "idle"
    /\ \E t \in Threads :
          /\ call[t].op = "save" /\ ret[t] = Raised
          /\ exc[t] = Exc("replace", "Other")
          /\ mutex[proc[t]] = 0

Waiting(t) == pc[t] \in {"init_acquire", "save_acquire", "del_acquire"}

\* C20: with the cluster answering and the Lock granted fairly every call
\* that has started returns or raises; while a call is running some thread can
\* take a step; no thread waits for a Lock it holds itself.
C20_EveryCallCompletes ==
    /\ \A t \in Threads : (pc[t] # "idle") ~> (pc[t] = "idle")
    /\ []((\E t \in Threads : pc[t] # "idle")
             => \E t \in Threads : ENABLED <<Run(t)>>_vars)
    /\ [](\A t \in Threads : Waiting(t) => mutex[proc[t]] # t)

\* a thread waits for the Lock while another holds it after a failed request
C20_Witness ==
    \E t, u \in Threads :
        /\ t # u
        /\ Waiting(t)
        /\ mutex[proc[t]] = u
        /\ pc[u] \in {"save_release", "del_release", "init_release"}
        /\ exc[u] # NoExc
====
